---- MODULE Spec2Model ----
(***************************************************************************)
(* Model of the Azure AD MFA report generator (main.py, helpers.py).       *)
(*                                                                         *)
(* Python values are tagged records [t, v]; a Python str is a sequence of  *)
(* one-character strings, so that the regular expressions and strptime of  *)
(* helpers.py are computed character by character.  A call that may raise  *)
(* yields [exc, val]: exc = "none" when it returned val.                   *)
(***************************************************************************)
EXTENDS Integers, Sequences, FiniteSets, TLC

VARIABLES
    pc,                  \* main(): the statement main is at
    registration,        \* directory: the list authenticationMethodUserDetails holds
    directory,           \* directory: user id -> the JSON body of GET /users/{id}
    auth_user_details,   \* main.py:39  dict id -> registration record
    task,                \* get_url coroutine of each user id: its position
    inflight,            \* TCPConnector: ids holding one of its connections
    response,            \* id -> what its get_url returned
    gather,              \* asyncio.gather of get_aad_users: its state
    user_details,        \* helpers.py:183  the list get_aad_users returned
    aad_users_details,   \* main.py:70  dict id -> detail record
    user_details_merged, \* main.py:85  list of merged records
    xlsx_data,           \* main.py:91  list of report rows
    report,              \* what generate_xlsx saved
    error,               \* the exception that ended main, "none" while it runs
    call,                \* normalizer harness: the function applied and its argument
    ret                  \* normalizer harness: what the call produced

vars == <<pc, registration, directory, auth_user_details, task, inflight,
          response, gather, user_details, aad_users_details, user_details_merged,
          xlsx_data, report, error, call, ret>>

-----------------------------------------------------------------------------
(* Python values                                                           *)

PyNone == [t |-> "none", v |-> <<>>]
PyBool(b) == [t |-> "bool", v |-> b]
PyStr(s) == [t |-> "str", v |-> s]
PyList(l) == [t |-> "list", v |-> l]
PyDict(d) == [t |-> "dict", v |-> d]

Returned(v) == [exc |-> "none", val |-> v]
Raised(e) == [exc |-> e, val |-> PyNone]

\* bool(x) of the values the model holds
Truthy(x) ==
    CASE x.t = "none" -> FALSE
      [] x.t = "bool" -> x.v
      [] x.t = "str" -> Len(x.v) > 0
      [] x.t = "list" -> Len(x.v) > 0
      [] x.t = "dict" -> DOMAIN x.v # {}

-----------------------------------------------------------------------------
(* Strings                                                                 *)

NA == <<"N", "/", "A">>
Yes == <<"Y", "e", "s">>
No == <<"N", "o">>
Never == <<"N", "e", "v", "e", "r">>
ExtMarker == <<"#", "E", "X", "T", "#">>
NoMfa == <<"N", "o", " ", "A", "A", "D", " ", "M", "F", "A", " ",
           "c", "o", "n", "f", "i", "g", "u", "r", "e", "d">>

Digit == {"0", "1", "2", "3", "4", "5", "6", "7", "8", "9"}
DigitSeq == <<"0", "1", "2", "3", "4", "5", "6", "7", "8", "9">>
DigitVal(c) == CHOOSE n \in 0..9 : DigitSeq[n + 1] = c

Slice(s, from, to) == [i \in 1..(to - from) |-> s[from + i - 1]]

\* s[pos:pos+len(lit)] == lit, positions counted from 1
StartsAt(s, pos, lit) ==
    /\ pos + Len(lit) - 1 <= Len(s)
    /\ \A i \in 1..Len(lit) : s[pos + i - 1] = lit[i]

RECURSIVE Concat(_)
Concat(ss) == IF ss = <<>> THEN <<>> ELSE Head(ss) \o Concat(Tail(ss))

RECURSIVE Join(_, _)
Join(sep, ss) ==
    IF ss = <<>> THEN <<>>
    ELSE IF Len(ss) = 1 THEN ss[1]
    ELSE ss[1] \o sep \o Join(sep, Tail(ss))

RECURSIVE Digits(_, _)
\* n written in w decimal digits, zero padded ("%0wd")
Digits(n, w) ==
    IF w = 0 THEN <<>> ELSE Digits(n \div 10, w - 1) \o <<DigitSeq[(n % 10) + 1]>>

RECURSIVE ToInt(_)
\* int(s) of a matched strptime group: decimal digits, a leading blank skipped
ToInt(s) ==
    IF s = <<>> THEN 0
    ELSE IF s[Len(s)] = " " THEN ToInt(SubSeq(s, 1, Len(s) - 1))
    ELSE 10 * ToInt(SubSeq(s, 1, Len(s) - 1)) + DigitVal(s[Len(s)])

-----------------------------------------------------------------------------
(* datetime.strptime(item, "%Y-%m-%dT%H:%M:%SZ"), helpers.py:259.          *)
(* The format compiles to the regular expression below (IGNORECASE); the   *)
(* alternatives of a directive are tried in the order written, and the     *)
(* match must consume the whole string.                                    *)

Digit19 == Digit \ {"0"}
Digit05 == {"0", "1", "2", "3", "4", "5"}

\* a sequence of items; an item is a sequence of alternatives; an
\* alternative is a sequence of character classes
TimeRE ==
    << << <<Digit, Digit, Digit, Digit>> >>,                         \* %Y
       << <<{"-"}>> >>,
       << <<{"1"}, {"0", "1", "2"}>>, <<{"0"}, Digit19>>, <<Digit19>> >>,   \* %m
       << <<{"-"}>> >>,
       << <<{"3"}, {"0", "1"}>>, <<{"1", "2"}, Digit>>, <<{"0"}, Digit19>>,
          <<Digit19>>, <<{" "}, Digit19>> >>,                        \* %d
       << <<{"T", "t"}>> >>,
       << <<{"2"}, {"0", "1", "2", "3"}>>, <<{"0", "1"}, Digit>>, <<Digit>> >>, \* %H
       << <<{":"}>> >>,
       << <<Digit05, Digit>>, <<Digit>> >>,                          \* %M
       << <<{":"}>> >>,
       << <<{"6"}, {"0", "1"}>>, <<Digit05, Digit>>, <<Digit>> >>,    \* %S
       << <<{"Z", "z"}>> >> >>

AltMatches(s, pos, alt) ==
    /\ pos + Len(alt) - 1 <= Len(s)
    /\ \A i \in 1..Len(alt) : s[pos + i - 1] \in alt[i]

RECURSIVE ReMatch(_, _, _, _)
RECURSIVE ReAlt(_, _, _, _, _)
RECURSIVE ReRest(_, _, _, _, _, _)
\* re.match of items k.. of re at position pos of s: <<>> when there is no
\* match, else the start of each item followed by the end of the match
ReMatch(re, s, pos, k) ==
    IF k > Len(re) THEN <<pos>> ELSE ReAlt(re, s, pos, k, 1)
\* backtracking over the alternatives a.. of item k
ReAlt(re, s, pos, k, a) ==
    IF a > Len(re[k]) THEN <<>>
    ELSE IF AltMatches(s, pos, re[k][a])
         THEN ReRest(re, s, pos, k, a, ReMatch(re, s, pos + Len(re[k][a]), k + 1))
         ELSE ReAlt(re, s, pos, k, a + 1)
\* alternative a of item k matched at pos and rest is the match of what follows
ReRest(re, s, pos, k, a, rest) ==
    IF rest # <<>> THEN <<pos>> \o rest ELSE ReAlt(re, s, pos, k, a + 1)

IsLeap(y) == (y % 4 = 0) /\ ((y % 100 # 0) \/ (y % 400 = 0))
DaysInMonth(y, m) ==
    IF m = 2 THEN (IF IsLeap(y) THEN 29 ELSE 28)
    ELSE IF m \in {4, 6, 9, 11} THEN 30 ELSE 31

\* datetime(year, month, day, hour, minute, second), or ValueError
datetime(year, month, day, hour, minute, second) ==
    IF year < 1 \/ day > DaysInMonth(year, month) \/ second > 59
    THEN Raised("ValueError")                             \* out of range
    ELSE Returned([t |-> "datetime",
                   v |-> [year |-> year, month |-> month, day |-> day,
                          hour |-> hour, minute |-> minute, second |-> second]])

\* the datetime of the groups of a match b of TimeRE on s, or ValueError
FromMatch(s, b) ==
    IF b = <<>> THEN Raised("ValueError")                 \* does not match format
    ELSE IF b[Len(b)] # Len(s) + 1 THEN Raised("ValueError")  \* unconverted data
    ELSE datetime(ToInt(Slice(s, b[1], b[2])), ToInt(Slice(s, b[3], b[4])),
                  ToInt(Slice(s, b[5], b[6])), ToInt(Slice(s, b[7], b[8])),
                  ToInt(Slice(s, b[9], b[10])), ToInt(Slice(s, b[11], b[12])))

\* the datetime parsed from s, or ValueError
strptime(s) == FromMatch(s, ReMatch(TimeRE, s, 1, 1))

\* datetime.isoformat() of a datetime without microseconds or tzinfo
isoformat(d) ==
    Digits(d.year, 4) \o <<"-">> \o Digits(d.month, 2) \o <<"-">> \o
    Digits(d.day, 2) \o <<"T">> \o Digits(d.hour, 2) \o <<":">> \o
    Digits(d.minute, 2) \o <<":">> \o Digits(d.second, 2)

-----------------------------------------------------------------------------
(* Field normalizers, helpers.py:198-311                                   *)

\* helpers.py:260-262, date being what strptime gave
FromDate(date) ==
    IF date.exc # "none" THEN date
    ELSE IF date.val.v.year > 1999 THEN Returned(PyStr(isoformat(date.val.v)))
    ELSE Returned(PyStr(Never))

is_datetime(item) ==
    IF Truthy(item) /\ item.t # "none"
    THEN IF item.t # "str" THEN Raised("TypeError")
         ELSE FromDate(strptime(item.v))
    ELSE Returned(PyStr(NA))

\* a converter without the except clause
ExceptNothing(r, item) == r

\* helpers.py:228-231: try: return r  except ValueError: return item
ExceptValueError(r, item) == IF r.exc = "ValueError" THEN Returned(item) ELSE r

item_to_string(item) ==
    IF item.t = "none" THEN Returned(PyStr(NA))
    ELSE IF item.t = "bool" /\ item.v THEN Returned(PyStr(Yes))
    ELSE IF item.t = "bool" /\ ~item.v THEN Returned(PyStr(No))
    ELSE IF item.t = "str" THEN ExceptValueError(is_datetime(item), item)
    ELSE Returned(item)

\* re.search("#EXT#", item)
ContainsExt(s) == \E j \in 1..Len(s) : StartsAt(s, j, ExtMarker)

is_external(item) ==
    IF item.t # "str" THEN Raised("TypeError")
    ELSE item_to_string(PyBool(ContainsExt(item.v)))

\* re.findall("(?<=_)(.*)(?=#EXT#)", item): a match starts right after a
\* "_" and runs, greedily and without crossing a newline, up to a marker;
\* findall scans from the left and item[0] is its first match
ExtDomainEnds(s, i) ==
    {j \in i..(Len(s) + 1) :
        /\ StartsAt(s, j, ExtMarker)
        /\ \A k \in i..(j - 1) : s[k] # "\n"}
ExtDomainStarts(s) ==
    {i \in 2..(Len(s) + 1) : s[i - 1] = "_" /\ ExtDomainEnds(s, i) # {}}
SetMin(S) == CHOOSE x \in S : \A y \in S : x <= y
SetMax(S) == CHOOSE x \in S : \A y \in S : y <= x

\* the first match that starts at one of starts, "N/A" when there is none
FirstExtDomain(s, starts) ==
    IF starts # {}
    THEN Returned(PyStr(Slice(s, SetMin(starts),
                              SetMax(ExtDomainEnds(s, SetMin(starts))))))
    ELSE Returned(PyStr(NA))

is_external_domain(item) ==
    IF item.t # "str" THEN Raised("TypeError")
    ELSE FirstExtDomain(item.v, ExtDomainStarts(item.v))

\* re.findall("(?<=@)(.*)(?=$)", item): a match starts right after an "@"
\* and runs to the end of the string (or to its final newline)
LineEnd(s, i) ==
    SetMin({j \in i..(Len(s) + 1) : j = Len(s) + 1 \/ s[j] = "\n"})
TenantStarts(s) ==
    {i \in 2..(Len(s) + 1) : s[i - 1] = "@" /\ LineEnd(s, i) >= Len(s)}

FirstTenantDomain(s, starts) ==
    IF starts # {}
    THEN Returned(PyStr(Slice(s, SetMin(starts), LineEnd(s, SetMin(starts)))))
    ELSE Returned(PyStr(NA))

get_tenant_domain(item) ==
    IF item.t # "str" THEN Raised("TypeError")
    ELSE FirstTenantDomain(item.v, TenantStarts(item.v))

\* the elements of a list as a set
Range(l) == {l[i] : i \in 1..Len(l)}
\* the orders in which iterating set(l) may yield its elements
SetOrders(l) ==
    {o \in [1..Cardinality(Range(l)) -> Range(l)] :
        \A i, j \in DOMAIN o : i # j => o[i] # o[j]}

\* ",".join(set(item)); order is the order in which the set is iterated
get_mfa_methods(item, order) ==
    IF Truthy(item) THEN Returned(PyStr(Join(<<",">>, order)))
    ELSE Returned(PyStr(NoMfa))

-----------------------------------------------------------------------------
(* Python dicts.  A JSON object is a function from field names to values.  *)
(* A dict whose iteration order the program uses is [keys, map]: its keys  *)
(* in insertion order and the value of each.                               *)

Put(d, k, v) == [f \in DOMAIN d \cup {k} |-> IF f = k THEN v ELSE d[f]]

\* a union in which the left mapping wins: {**b, **a}
DictUnionLeftWins(a, b) ==
    [f \in DOMAIN a \cup DOMAIN b |-> IF f \in DOMAIN a THEN a[f] ELSE b[f]]

\* {**a, **b}
DictUnion(a, b) ==
    [f \in DOMAIN a \cup DOMAIN b |-> IF f \in DOMAIN b THEN b[f] ELSE a[f]]

EmptyDict == [keys |-> <<>>, map |-> <<>>]

RECURSIVE KeysById(_)
\* the keys of {user["id"]: user for user in users}, in insertion order
KeysById(users) ==
    IF users = <<>> THEN <<>>
    ELSE LET front == KeysById(SubSeq(users, 1, Len(users) - 1))
             k == users[Len(users)].v["id"].v
         IN  IF k \in Range(front) THEN front ELSE Append(front, k)

\* {user["id"]: user for user in users}: a later user of an id replaces an
\* earlier one
DictById(users) ==
    [keys |-> KeysById(users),
     map |-> [k \in {users[i].v["id"].v : i \in DOMAIN users} |->
                 users[SetMax({i \in DOMAIN users : users[i].v["id"].v = k})]]]

-----------------------------------------------------------------------------
(* Concurrent fetcher, helpers.py:134-195                                  *)

ConnLimit == 10

NoSignIn ==
    PyDict([lastSignInDateTime |-> PyNone,
            lastNonInteractiveSignInDateTime |-> PyNone])

\* a get_url that adds the id but no signInActivity
get_url_no_sign_in(body, user_id) ==
    IF body.t # "dict" THEN Raised("Exception")
    ELSE IF "id" \notin DOMAIN body.v
    THEN Returned(PyDict(Put(body.v, "id", PyStr(user_id))))
    ELSE Returned(body)

\* what get_url returns for the body the directory sent: response.json()
\* raises on a body that is not JSON, and a JSON value that is no object
\* cannot take the injected fields; every exception is re-raised as Exception
get_url(body, user_id) ==
    IF body.t # "dict" THEN Raised("Exception")
    ELSE LET r1 == IF "id" \notin DOMAIN body.v
                   THEN Put(body.v, "id", PyStr(user_id)) ELSE body.v
             r2 == IF "signInActivity" \notin DOMAIN r1
                   THEN Put(r1, "signInActivity", NoSignIn) ELSE r1
         IN  Returned(PyDict(r2))

-----------------------------------------------------------------------------
(* Record merger, main.py:85-88                                            *)

\* [{**auth[user_id], **aad[user_id]} for user_id in auth.keys()]
merge_user_details(auth, aad) ==
    IF \E i \in DOMAIN auth.keys : auth.keys[i] \notin DOMAIN aad.map
    THEN Raised("KeyError")
    ELSE Returned(PyList([i \in DOMAIN auth.keys |->
             PyDict(DictUnion(auth.map[auth.keys[i]].v,
                              aad.map[auth.keys[i]].v))]))

-----------------------------------------------------------------------------
(* Report row builder, helpers.py:314-360                                  *)

\* the columns with the two external-user columns the other way round
ColumnsSwapped ==
    <<"userId", "isEnabled", "userDisplayName", "userPrincipalName",
      "externalDomain", "isExternal", "externalUserState",
      "externalUserStateLastChangeUTC", "tenantDomain", "methodsRegistered",
      "onPremisesSyncEnabled", "lastInteractiveSignInUTC",
      "lastNonInteractiveSignInUTC">>

\* helpers.py:341-357: the keys of a row, in the order written
Columns ==
    <<"userId", "isEnabled", "userDisplayName", "userPrincipalName",
      "isExternal", "externalDomain", "externalUserState",
      "externalUserStateLastChangeUTC", "tenantDomain", "methodsRegistered",
      "onPremisesSyncEnabled", "lastInteractiveSignInUTC",
      "lastNonInteractiveSignInUTC">>

\* x[k]
GetItem(x, k) ==
    IF x.t # "dict" THEN Raised("TypeError")
    ELSE IF k \in DOMAIN x.v THEN Returned(x.v[k]) ELSE Raised("KeyError")

\* r[k] when evaluating r did not raise
SubItem(r, k) == IF r.exc # "none" THEN r ELSE GetItem(r.val, k)

\* the orders in which set(x["methodsRegistered"]) may be iterated
RowOrders(x) ==
    IF /\ x.t = "dict" /\ "methodsRegistered" \in DOMAIN x.v
       /\ x.v["methodsRegistered"].t = "list"
    THEN SetOrders(x.v["methodsRegistered"].v)
    ELSE {<<>>}

\* f(r) for an argument r: the exception of r when evaluating it raised
ItemToString(r) == IF r.exc # "none" THEN r ELSE item_to_string(r.val)
IsDatetime(r) == IF r.exc # "none" THEN r ELSE is_datetime(r.val)
IsExternal(r) == IF r.exc # "none" THEN r ELSE is_external(r.val)
IsExternalDomain(r) == IF r.exc # "none" THEN r ELSE is_external_domain(r.val)
GetTenantDomain(r) == IF r.exc # "none" THEN r ELSE get_tenant_domain(r.val)
GetMfaMethods(r, order) ==
    IF r.exc # "none" THEN r ELSE get_mfa_methods(r.val, order)

\* the 13 cells of the row of x, each the value or the exception of its
\* expression
Cells(x, order) ==
    [userId |-> GetItem(x, "id"),
     isEnabled |-> ItemToString(GetItem(x, "accountEnabled")),
     userDisplayName |-> GetItem(x, "userDisplayName"),
     userPrincipalName |-> GetItem(x, "userPrincipalName"),
     isExternal |-> IsExternal(GetItem(x, "userPrincipalName")),
     externalDomain |-> IsExternalDomain(GetItem(x, "userPrincipalName")),
     externalUserState |-> ItemToString(GetItem(x, "externalUserState")),
     externalUserStateLastChangeUTC |->
         ItemToString(GetItem(x, "externalUserStateChangeDateTime")),
     tenantDomain |-> GetTenantDomain(GetItem(x, "userPrincipalName")),
     methodsRegistered |-> GetMfaMethods(GetItem(x, "methodsRegistered"), order),
     onPremisesSyncEnabled |->
         ItemToString(GetItem(x, "onPremisesSyncEnabled")),
     lastInteractiveSignInUTC |->
         IsDatetime(SubItem(GetItem(x, "signInActivity"), "lastSignInDateTime")),
     lastNonInteractiveSignInUTC |->
         IsDatetime(SubItem(GetItem(x, "signInActivity"),
                            "lastNonInteractiveSignInDateTime"))]

\* the first of the cells, in the order written, that raised
FirstRaised(cells) ==
    SetMin({i \in DOMAIN Columns : cells[Columns[i]].exc # "none"})

\* the dict of the cells, its columns in the order written, or the first
\* exception an expression raised
RowOf(cells) ==
    IF \E c \in Range(Columns) : cells[c].exc # "none"
    THEN Raised(cells[Columns[FirstRaised(cells)]].exc)
    ELSE Returned([keys |-> Columns,
                   map |-> [c \in Range(Columns) |-> cells[c].val]])

Row(x, order) == RowOf(Cells(x, order))

RECURSIVE OrdersFor(_)
\* the choices of one iteration order per record of data
OrdersFor(data) ==
    IF data = <<>> THEN {<<>>}
    ELSE {Append(o, r) : o \in OrdersFor(SubSeq(data, 1, Len(data) - 1)),
                         r \in RowOrders(data[Len(data)])}

\* the list of the rows, or the exception of the first row that raised
ListOf(rows) ==
    IF \E i \in DOMAIN rows : rows[i].exc # "none"
    THEN Raised(rows[SetMin({i \in DOMAIN rows : rows[i].exc # "none"})].exc)
    ELSE Returned(PyList([i \in DOMAIN rows |-> rows[i].val]))

xlsx_dict_prep(data, orders) ==
    ListOf([i \in DOMAIN data |-> Row(data[i], orders[i])])

\* generate_xlsx reads the headers off data[0] and saves every row
generate_xlsx(data) ==
    IF data = <<>> THEN Raised("IndexError") ELSE Returned(PyList(data))

-----------------------------------------------------------------------------
(* The directory: what the two endpoints hold.  Bounds of the model.       *)

MaxUsers == 2       \* users of the tenant, specification Spec
PoolUsers == 11     \* users of the tenant, specification SpecPool

UserId(k) == <<"u">> \o Digits(k, 2)
UserIndex(u) == ToInt(Tail(u))

GuestUpn == <<"j", "_", "d", "_", "c", ".", "x", "#", "E", "X", "T", "#", "@", "t", ".", "y">>
MemberUpn == <<"j", "@", "t", ".", "y">>
Sms == <<"s", "m", "s">>
Push == <<"p", "u", "s", "h">>
SignedIn == <<"2", "0", "2", "3", "-", "0", "5", "-", "0", "1", "T",
              "1", "2", ":", "0", "0", ":", "0", "0", "Z">>
NeverSignedIn == <<"1", "9", "9", "8", "-", "0", "1", "-", "0", "1", "T",
                   "0", "0", ":", "0", "0", ":", "0", "0", "Z">>
Garbled == <<"2", "0", "2", "3", "-", "0", "5">>
Accepted == <<"A", "c", "c", "e", "p", "t", "e", "d">>

\* the registration record of user k
RegRecord(k) ==
    PyDict([id |-> PyStr(UserId(k)),
            userDisplayName |-> PyStr(<<"n">> \o Digits(k, 2)),
            userPrincipalName |-> PyStr(IF k % 2 = 1 THEN GuestUpn ELSE MemberUpn),
            methodsRegistered |->
                PyList(IF k % 3 = 1 THEN <<Sms, Sms, Push>>
                       ELSE IF k % 3 = 2 THEN <<>> ELSE <<Push>>)])

\* the bodies GET /users/{id} may answer with: a user object, an error
\* object (the status is not looked at), a body that is not JSON, or no
\* answer at all; a user or error object with or without an id (its own or
\* another's) and with or without signInActivity
Shapes ==
    {sh \in [body : {"user", "error", "text", "timeout"},
             id : {"absent", "own", "other"},
             sign : {"absent", "good", "bad"}] :
        sh.body \in {"text", "timeout"} => sh.id = "absent" /\ sh.sign = "absent"}

Body(k, n, sh) ==
    IF sh.body \in {"text", "timeout"} THEN [t |-> sh.body, v |-> <<>>]
    ELSE LET base == IF sh.body = "error"
                     THEN [error |-> PyStr(<<"4", "0", "4">>)]
                     ELSE [accountEnabled |-> PyBool(k % 2 = 1),
                           onPremisesSyncEnabled |-> PyNone,
                           externalUserState |->
                               IF k % 2 = 1 THEN PyStr(Accepted) ELSE PyNone,
                           externalUserStateChangeDateTime |->
                               IF k % 2 = 1 THEN PyStr(SignedIn) ELSE PyNone]
             other == UserId(IF n > 1 THEN (k % n) + 1 ELSE 0)
             b1 == IF sh.id = "own" THEN Put(base, "id", PyStr(UserId(k)))
                   ELSE IF sh.id = "other" THEN Put(base, "id", PyStr(other))
                   ELSE base
             b2 == IF sh.sign = "good"
                   THEN Put(b1, "signInActivity",
                            PyDict([lastSignInDateTime |-> PyStr(SignedIn),
                                    lastNonInteractiveSignInDateTime |->
                                        PyStr(NeverSignedIn)]))
                   ELSE IF sh.sign = "bad"
                   THEN Put(b1, "signInActivity",
                            PyDict([lastSignInDateTime |-> PyStr(Garbled),
                                    lastNonInteractiveSignInDateTime |-> PyNone]))
                   ELSE b1
         IN  PyDict(b2)

NotCalled == [exc |-> "pending", val |-> PyNone]
NoCall == [fn |-> "none", args |-> <<>>]
NoReport == [saved |-> FALSE, rows |-> <<>>]

\* main() about to fetch the registration report of a tenant of n users
\* whose user k the directory answers with Body(k, n, shape[k])
Start(n, shape) ==
    /\ pc = "get_auth_user_details"
    /\ registration = [k \in 1..n |-> RegRecord(k)]
    /\ directory = [u \in {UserId(k) : k \in 1..n} |->
                        Body(UserIndex(u), n, shape[UserIndex(u)])]
    /\ auth_user_details = EmptyDict
    /\ task = <<>>
    /\ inflight = {}
    /\ response = <<>>
    /\ gather = "none"
    /\ user_details = <<>>
    /\ aad_users_details = EmptyDict
    /\ user_details_merged = <<>>
    /\ xlsx_data = <<>>
    /\ report = NoReport
    /\ error = "none"
    /\ call = NoCall
    /\ ret = NotCalled

Init == \E n \in 0..MaxUsers : \E shape \in [1..n -> Shapes] : Start(n, shape)

FullShape == [body |-> "user", id |-> "absent", sign |-> "good"]
LostShape == [body |-> "timeout", id |-> "absent", sign |-> "absent"]

\* a tenant of PoolUsers users, at most one of whose requests goes unanswered
InitPool ==
    \E f \in {0, 1, PoolUsers} :
        Start(PoolUsers, [k \in 1..PoolUsers |-> IF k = f THEN LostShape ELSE FullShape])

-----------------------------------------------------------------------------
(* main(), main.py:27-99, and the coroutines it runs                       *)

pipeline == <<pc, auth_user_details, task, inflight, response, gather,
              user_details, aad_users_details, user_details_merged, xlsx_data, report, error>>

\* an exception nothing catches ends main
Crash(e) == pc' = "crashed" /\ error' = e

\* main.py:39-48: the registration report arrived; main keys it by id
GetAuthUserDetails ==
    /\ pc = "get_auth_user_details"
    /\ auth_user_details' = DictById(registration)
    /\ pc' = "get_aad_users"
    /\ UNCHANGED <<registration, directory, task, inflight, response, gather,
                   user_details, aad_users_details, user_details_merged, xlsx_data, report,
                   error, call, ret>>

\* helpers.py:114-131: the request failed or its answer holds no "value"
GetAuthUserDetailsRaises ==
    /\ pc = "get_auth_user_details"
    /\ Crash("Exception")
    /\ UNCHANGED <<registration, directory, auth_user_details, task, inflight,
                   response, gather, user_details, aad_users_details, user_details_merged,
                   xlsx_data, report, call, ret>>

\* main.py:72, helpers.py:179-194: asyncio.run starts get_aad_users, which
\* opens the session and gathers one get_url per key of auth_user_details
GetAadUsers ==
    /\ pc = "get_aad_users"
    /\ task' = [u \in Range(auth_user_details.keys) |-> "queued"]
    /\ response' = [u \in Range(auth_user_details.keys) |-> PyNone]
    /\ gather' = "running"
    /\ pc' = "asyncio_run"
    /\ UNCHANGED <<registration, directory, auth_user_details, inflight,
                   user_details, aad_users_details, user_details_merged, xlsx_data, report,
                   error, call, ret>>

\* a connector that lets one request too many through
HasFreeConnectionInclusive(held) == Cardinality(held) <= 10

\* TCPConnector(limit=10): a request gets a connection only while fewer
\* than limit are held
HasFreeConnection(held) == Cardinality(held) < ConnLimit

\* the coroutines start in the order gather was given them, and the
\* connector serves the requests that wait in the order they came
IsNextWaiter(u) ==
    \E i \in DOMAIN auth_user_details.keys :
        /\ auth_user_details.keys[i] = u
        /\ \A j \in 1..(i - 1) : task[auth_user_details.keys[j]] # "queued"

\* helpers.py:149: session.get of user u is given a connection
Connect(u) ==
    /\ pc = "asyncio_run"
    /\ task[u] = "queued"
    /\ IsNextWaiter(u)
    /\ HasFreeConnection(inflight)
    /\ inflight' = inflight \cup {u}
    /\ task' = [task EXCEPT ![u] = "inflight"]
    /\ UNCHANGED <<pc, registration, directory, auth_user_details, response,
                   gather, user_details, aad_users_details, user_details_merged, xlsx_data,
                   report, error, call, ret>>

\* a gather that swallows the exception of a task (return_exceptions=True)
OnTaskExceptionSwallowed(g) == g

\* asyncio.gather without return_exceptions: the first exception of a task
\* is raised to the awaiting get_aad_users
OnTaskException(g) == IF g = "running" THEN "raised" ELSE g

\* helpers.py:149-162: the body of user u arrived; get_url returns the
\* post-processed object or raises, and its connection is given back
GetUrl(u) ==
    /\ pc = "asyncio_run"
    /\ task[u] = "inflight"
    /\ directory[u].t # "timeout"
    /\ LET r == get_url(directory[u], u)
       IN  IF r.exc = "none"
           THEN /\ task' = [task EXCEPT ![u] = "done"]
                /\ response' = [response EXCEPT ![u] = r.val]
                /\ gather' = gather
           ELSE /\ task' = [task EXCEPT ![u] = "failed"]
                /\ response' = response
                /\ gather' = OnTaskException(gather)
    /\ inflight' = inflight \ {u}
    /\ UNCHANGED <<pc, registration, directory, auth_user_details,
                   user_details, aad_users_details, user_details_merged, xlsx_data, report,
                   error, call, ret>>

\* helpers.py:149, 161: the request of user u gets no answer: the session's
\* timeout (which also runs while it waits for a connection) makes session.get
\* raise
GetUrlTimesOut(u) ==
    /\ pc = "asyncio_run"
    /\ task[u] \in {"queued", "inflight"}
    /\ directory[u].t = "timeout"
    /\ task' = [task EXCEPT ![u] = "failed"]
    /\ inflight' = inflight \ {u}
    /\ gather' = OnTaskException(gather)
    /\ UNCHANGED <<pc, registration, directory, auth_user_details, response,
                   user_details, aad_users_details, user_details_merged, xlsx_data, report,
                   error, call, ret>>

\* a wait that returns on the first task that finished (FIRST_COMPLETED)
AnyFinished(t) == \E u \in DOMAIN t : t[u] \in {"done", "failed"}

\* asyncio.gather: its future completes when every task has finished
AllFinished(t) == \A u \in DOMAIN t : t[u] \in {"done", "failed"}

\* the results gather hands back: those of its tasks, in the order given
UserDetails ==
    LET keys == auth_user_details.keys
        done == SelectSeq([i \in DOMAIN keys |-> i], LAMBDA i : task[keys[i]] = "done")
    IN  [j \in DOMAIN done |-> response[keys[done[j]]]]

\* helpers.py:183-195, main.py:70-81: gather returns the list of results,
\* the session closes, asyncio.run returns and main keys the list by id
GetAadUsersReturns ==
    /\ pc = "asyncio_run"
    /\ gather = "running"
    /\ AllFinished(task)
    /\ gather' = "returned"
    /\ user_details' = UserDetails
    /\ aad_users_details' = DictById(UserDetails)
    /\ pc' = "merge"
    /\ UNCHANGED <<registration, directory, auth_user_details, task, inflight,
                   response, user_details_merged, xlsx_data, report, error,
                   call, ret>>

\* helpers.py:182-183, main.py:72: the exception gather raised leaves the
\* session block, which closes the connector; asyncio.run cancels the tasks
\* still running and raises in main
GetAadUsersRaises ==
    /\ pc = "asyncio_run"
    /\ gather = "raised"
    /\ task' = [u \in DOMAIN task |->
                   IF task[u] \in {"queued", "inflight"} THEN "cancelled" ELSE task[u]]
    /\ inflight' = {}
    /\ Crash("Exception")
    /\ UNCHANGED <<registration, directory, auth_user_details, response,
                   gather, user_details, aad_users_details, user_details_merged, xlsx_data,
                   report, call, ret>>

\* main.py:85-88
Merge ==
    /\ pc = "merge"
    /\ LET r == merge_user_details(auth_user_details, aad_users_details)
       IN  IF r.exc = "none"
           THEN /\ user_details_merged' = r.val.v
                /\ pc' = "xlsx_dict_prep"
                /\ error' = error
           ELSE /\ user_details_merged' = user_details_merged
                /\ Crash(r.exc)
    /\ UNCHANGED <<registration, directory, auth_user_details, task, inflight,
                   response, gather, user_details, aad_users_details, xlsx_data, report,
                   call, ret>>

\* main.py:91
XlsxDictPrep ==
    /\ pc = "xlsx_dict_prep"
    /\ \E orders \in OrdersFor(user_details_merged) :
           LET r == xlsx_dict_prep(user_details_merged, orders)
           IN  IF r.exc = "none"
               THEN /\ xlsx_data' = r.val.v
                    /\ pc' = "generate_xlsx"
                    /\ error' = error
               ELSE /\ xlsx_data' = xlsx_data
                    /\ Crash(r.exc)
    /\ UNCHANGED <<registration, directory, auth_user_details, task, inflight,
                   response, gather, user_details, aad_users_details, user_details_merged,
                   report, call, ret>>

\* main.py:94-99
GenerateXlsx ==
    /\ pc = "generate_xlsx"
    /\ LET r == generate_xlsx(xlsx_data)
       IN  IF r.exc = "none"
           THEN /\ report' = [saved |-> TRUE, rows |-> r.val.v]
                /\ pc' = "done"
                /\ error' = error
           ELSE /\ report' = report
                /\ Crash(r.exc)
    /\ UNCHANGED <<registration, directory, auth_user_details, task, inflight,
                   response, gather, user_details, aad_users_details, user_details_merged,
                   xlsx_data, call, ret>>

Next ==
    \/ GetAuthUserDetails
    \/ GetAuthUserDetailsRaises
    \/ GetAadUsers
    \/ \E u \in DOMAIN task : Connect(u)
    \/ \E u \in DOMAIN task : GetUrl(u)
    \/ \E u \in DOMAIN task : GetUrlTimesOut(u)
    \/ GetAadUsersReturns
    \/ GetAadUsersRaises
    \/ Merge
    \/ XlsxDictPrep
    \/ GenerateXlsx

Spec == Init /\ [][Next]_vars

SpecPool == InitPool /\ [][Next]_vars

-----------------------------------------------------------------------------
(* The normalizers, the merger and the row builder applied on their own:   *)
(* call is the function and its arguments, ret what it produced.           *)

MaxTokens == 4      \* tokens of a principal name
MaxKeys == 2        \* user ids of the two mappings merged
MaxRecords == 2     \* merged records handed to the row builder

\* timestamps as the directory writes them, and near misses of each part
TsYears == {<<"1", "9", "9", "8">>, <<"1", "9", "9", "9">>, <<"2", "0", "0", "0">>,
            <<"2", "0", "2", "3">>, <<"0", "0", "0", "0">>, <<"2", "0", "2">>}
TsMonths == {<<"0", "5">>, <<"5">>, <<"0", "2">>, <<"1", "3">>}
TsDays == {<<"0", "1">>, <<"1">>, <<"3", "0">>, <<" ", "1">>, <<"3", "2">>}
TsSeps == {<<"T">>, <<"t">>, <<" ">>}
TsHours == {<<"1", "2">>, <<"7">>, <<"2", "4">>}
TsMinutes == {<<"0", "0">>, <<"6", "0">>}
TsSeconds == {<<"0", "0">>, <<"9">>, <<"6", "0">>}
TsZones == {<<"Z">>, <<"z">>, <<>>, <<"Z", "x">>}

TsInputs ==
    {y \o <<"-">> \o m \o <<"-">> \o d \o sep \o h \o <<":">> \o mi \o <<":">> \o sec \o z :
        y \in TsYears, m \in TsMonths, d \in TsDays, sep \in TsSeps,
        h \in TsHours, mi \in TsMinutes, sec \in TsSeconds, z \in TsZones}

\* principal names: up to MaxTokens of these tokens, and the documented ones
UpnTokens == {<<"a">>, <<"_">>, ExtMarker, <<"@">>, <<"#">>, <<"\n">>}
RECURSIVE TokenStrings(_)
TokenStrings(n) ==
    IF n = 0 THEN {<<>>}
    ELSE {<<>>} \cup {tok \o rest : tok \in UpnTokens, rest \in TokenStrings(n - 1)}
JohnUpn ==
    <<"j", "o", "h", "n", "_", "c", "o", "n", "t", "o", "s", "o", ".", "c", "o", "m",
      "#", "E", "X", "T", "#", "@", "t", "e", "n", "a", "n", "t">>
JohnDoeUpn ==
    <<"j", "o", "h", "n", "_", "d", "o", "e", "_", "c", "o", "n", "t", "o", "s", "o",
      ".", "c", "o", "m", "#", "E", "X", "T", "#", "@", "t", "e", "n", "a", "n", "t">>
UpnInputs == TokenStrings(MaxTokens) \cup {JohnUpn, JohnDoeUpn, GuestUpn, MemberUpn}

\* the values item_to_string is given
ItemInputs ==
    {PyNone, PyBool(TRUE), PyBool(FALSE), PyList(<<>>), PyList(<<Sms>>)}
    \cup {PyStr(s) : s \in TsInputs \cup TokenStrings(MaxTokens - 2) \cup {Accepted}}

\* the values is_datetime is given
DatetimeInputs == {PyNone} \cup {PyStr(s) : s \in TsInputs \cup {<<>>, Garbled}}

\* the mappings merged: a record of a key of mapping a holds the fields
\* p, q or some of them, one of mapping b the fields q, r or some of them,
\* its values naming the mapping and the key
MergeFields(src) ==
    IF src = "a" THEN {{}, {"p"}, {"p", "q"}} ELSE {{}, {"q"}, {"q", "r"}}
MergeRecords(src, k) ==
    {PyDict([f \in fs |-> PyStr(<<src, f>> \o k)]) : fs \in MergeFields(src)}
RECURSIVE KeyOrders(_)
\* the sequences of distinct keys out of K
KeyOrders(K) ==
    {<<>>} \cup UNION {{<<k>> \o o : o \in KeyOrders(K \ {k})} : k \in K}
RECURSIVE Mappings(_, _)
\* the dicts of the keys ks, in this order, the mapping src may hold
Mappings(src, ks) ==
    IF ks = <<>> THEN {EmptyDict}
    ELSE {[keys |-> <<Head(ks)>> \o m.keys,
           map |-> [k \in {Head(ks)} \cup DOMAIN m.map |->
                       IF k = Head(ks) THEN r ELSE m.map[k]]] :
             r \in MergeRecords(src, Head(ks)), m \in Mappings(src, Tail(ks))}
MergeKeys == {UserId(k) : k \in 1..MaxKeys}
\* mapping a with its keys in every order; mapping b, which is only looked
\* up by key, with its keys in the order of the ids
MergeInputs(src) ==
    IF src = "a" THEN UNION {Mappings(src, ks) : ks \in KeyOrders(MergeKeys)}
    ELSE UNION {Mappings(src, SelectSeq([k \in 1..MaxKeys |-> UserId(k)],
                                        LAMBDA u : u \in K)) : K \in SUBSET MergeKeys}

\* the merged record of a user, every source field present
FullRecord ==
    [id |-> PyStr(UserId(1)),
     accountEnabled |-> PyBool(TRUE),
     userDisplayName |-> PyStr(<<"n">>),
     userPrincipalName |-> PyStr(GuestUpn),
     externalUserState |-> PyStr(Accepted),
     externalUserStateChangeDateTime |-> PyStr(SignedIn),
     methodsRegistered |-> PyList(<<Sms, Sms, Push>>),
     onPremisesSyncEnabled |-> PyNone,
     signInActivity |-> NoSignIn]

\* d without the field k
Without(d, k) == [f \in DOMAIN d \ {k} |-> d[f]]

SourceFields == DOMAIN FullRecord
SignInFields == {"lastSignInDateTime", "lastNonInteractiveSignInDateTime"}

\* the merged records the row builder is given: the full one, with another
\* user's fields, with a sign-in timestamp of each kind, with a null
\* signInActivity, and with one source field missing
MergedRecords ==
    {PyDict(FullRecord),
     PyDict([FullRecord EXCEPT !.id = PyStr(UserId(2)),
                               !.accountEnabled = PyBool(FALSE),
                               !.userPrincipalName = PyStr(MemberUpn),
                               !.externalUserState = PyNone,
                               !.externalUserStateChangeDateTime = PyNone,
                               !.methodsRegistered = PyList(<<>>)]),
     PyDict([FullRecord EXCEPT !.signInActivity = PyNone])}
    \cup {PyDict([FullRecord EXCEPT !.signInActivity =
                     PyDict([lastSignInDateTime |-> PyStr(ts),
                             lastNonInteractiveSignInDateTime |-> PyNone])]) :
             ts \in {SignedIn, NeverSignedIn, Garbled, <<>>}}
    \cup {PyDict([FullRecord EXCEPT !.signInActivity =
                     PyDict([lastSignInDateTime |-> PyNone,
                             lastNonInteractiveSignInDateTime |-> PyStr(Garbled)])])}
    \cup {PyDict(Without(FullRecord, k)) : k \in SourceFields}
    \cup {PyDict([FullRecord EXCEPT !.signInActivity =
                     PyDict(Without(NoSignIn.v, k))]) : k \in SignInFields}

RECURSIVE Lists(_, _)
\* the lists of at most n elements of S
Lists(S, n) ==
    IF n = 0 THEN {<<>>}
    ELSE {<<>>} \cup {<<x>> \o l : x \in S, l \in Lists(S, n - 1)}

Calls ==
    {[fn |-> "item_to_string", args |-> <<item>>] : item \in ItemInputs}
    \cup {[fn |-> "is_datetime", args |-> <<item>>] : item \in DatetimeInputs}
    \cup {[fn |-> "is_external_domain", args |-> <<PyStr(s)>>] : s \in UpnInputs}
    \cup {[fn |-> "merge", args |-> <<a, b>>] :
             a \in MergeInputs("a"), b \in MergeInputs("b")}
    \cup {[fn |-> "xlsx_dict_prep", args |-> <<data>>] :
             data \in Lists(MergedRecords, MaxRecords)}

InitUnits ==
    /\ pc = "unit"
    /\ registration = <<>>
    /\ directory = <<>>
    /\ auth_user_details = EmptyDict
    /\ task = <<>>
    /\ inflight = {}
    /\ response = <<>>
    /\ gather = "none"
    /\ user_details = <<>>
    /\ aad_users_details = EmptyDict
    /\ user_details_merged = <<>>
    /\ xlsx_data = <<>>
    /\ report = NoReport
    /\ error = "none"
    /\ call \in Calls
    /\ ret = NotCalled

Called(fn) == pc = "unit" /\ call.fn = fn /\ ret = NotCalled

CallItemToString ==
    /\ Called("item_to_string")
    /\ ret' = item_to_string(call.args[1])
    /\ UNCHANGED <<pipeline, registration, directory, call>>

CallIsDatetime ==
    /\ Called("is_datetime")
    /\ ret' = is_datetime(call.args[1])
    /\ UNCHANGED <<pipeline, registration, directory, call>>

CallIsExternalDomain ==
    /\ Called("is_external_domain")
    /\ ret' = is_external_domain(call.args[1])
    /\ UNCHANGED <<pipeline, registration, directory, call>>

CallMerge ==
    /\ Called("merge")
    /\ ret' = merge_user_details(call.args[1], call.args[2])
    /\ UNCHANGED <<pipeline, registration, directory, call>>

CallXlsxDictPrep ==
    /\ Called("xlsx_dict_prep")
    /\ \E orders \in OrdersFor(call.args[1]) :
           ret' = xlsx_dict_prep(call.args[1], orders)
    /\ UNCHANGED <<pipeline, registration, directory, call>>

NextUnits ==
    \/ CallItemToString
    \/ CallIsDatetime
    \/ CallIsExternalDomain
    \/ CallMerge
    \/ CallXlsxDictPrep

SpecUnits == InitUnits /\ [][NextUnits]_vars


-----------------------------------------------------------------------------
(* Properties of the pipeline                                              *)

Ids == auth_user_details.keys
Tasks(status) == {u \in DOMAIN task : task[u] = status}
Downstream == {"merge", "xlsx_dict_prep", "generate_xlsx", "done"}

\* C1: at every moment at most 10 per-user requests are in flight; the
\* requests beyond that wait, and none is dropped: while gather runs every
\* id of the batch has its task, waiting, in flight or complete, and the
\* list gather returns has one result per id
C1_AtMostTenInFlight ==
    /\ Cardinality(inflight) <= 10
    /\ inflight = Tasks("inflight")
    /\ gather = "running" =>
           /\ DOMAIN task = Range(Ids)
           /\ \A u \in DOMAIN task : task[u] \in {"queued", "inflight", "done"}
    /\ gather = "returned" =>
           /\ Len(user_details) = Len(Ids)
           /\ \A i \in DOMAIN Ids : user_details[i] = response[Ids[i]]

\* ten requests are in flight and one more waits for a connection
C1_Witness ==
    /\ Cardinality(inflight) = 10
    /\ Tasks("queued") # {}
    /\ gather = "running"

\* C2: no per-user request exists before the registration fetch has
\* returned, and the merge, and whatever holds detail results, is reached
\* only when every one of the N requests has completed
C2_Phased ==
    /\ pc = "get_auth_user_details" =>
           /\ DOMAIN task = {}
           /\ inflight = {}
           /\ gather = "none"
    /\ DOMAIN task # {} =>
           /\ auth_user_details = DictById(registration)
           /\ DOMAIN task = Range(Ids)
    /\ (\/ pc \in Downstream
        \/ user_details # <<>>
        \/ aad_users_details # EmptyDict
        \/ user_details_merged # <<>>
        \/ xlsx_data # <<>>
        \/ report # NoReport) =>
           /\ gather = "returned"
           /\ DOMAIN task = Range(Ids)
           /\ \A u \in DOMAIN task : task[u] = "done"
           /\ inflight = {}

\* the merge is about to start on a batch larger than the connector's
\* limit, whose requests therefore did not all run at once
C2_Witness ==
    /\ pc = "merge"
    /\ Cardinality(DOMAIN task) > 10
    /\ Tasks("done") = DOMAIN task

C4_Results ==
    gather = "returned" =>
        /\ Len(user_details) = Len(Ids)
        /\ \A i \in DOMAIN Ids :
               LET raw == directory[Ids[i]].v
                   res == user_details[i]
               IN  /\ res.t = "dict"
                   /\ DOMAIN res.v = DOMAIN raw \cup {"id", "signInActivity"}
                   /\ \A f \in DOMAIN raw : res.v[f] = raw[f]
                   /\ "id" \notin DOMAIN raw => res.v["id"] = [t |-> "str", v |-> Ids[i]]
                   /\ "signInActivity" \notin DOMAIN raw =>
                          res.v["signInActivity"] =
                              [t |-> "dict",
                               v |-> [lastSignInDateTime |-> [t |-> "none", v |-> <<>>],
                                      lastNonInteractiveSignInDateTime |->
                                          [t |-> "none", v |-> <<>>]]]

\* two requests succeeded, one raw response without id and signInActivity
\* and one with both
C4_Witness ==
    /\ gather = "returned"
    /\ \E u, w \in DOMAIN task :
           /\ "id" \notin DOMAIN directory[u].v
           /\ "signInActivity" \notin DOMAIN directory[u].v
           /\ {"id", "signInActivity"} \subseteq DOMAIN directory[w].v

\* C5: whatever the raw responses, every input id appears exactly once as
\* the id of a result and is a key of the details dictionary
C5_EveryIdOnce ==
    gather = "returned" =>
        /\ \A i \in DOMAIN Ids :
               Cardinality({j \in DOMAIN user_details :
                               user_details[j].v["id"] = PyStr(Ids[i])}) = 1
        /\ Range(Ids) \subseteq DOMAIN aad_users_details.map


-----------------------------------------------------------------------------
(* Properties of the functions                                             *)

\* the call of fn has returned or raised
Applied(fn) == call.fn = fn /\ ret # NotCalled

\* The strings "%Y-%m-%dT%H:%M:%SZ" accepts, told from their shape: six
\* separators, the last one ending the string, around a year of four digits
\* and five numbers of one or two digits (the day may be blank padded),
\* which name a moment of the calendar
TsSeparators(s) ==
    SelectSeq([i \in 1..Len(s) |-> i], LAMBDA i : s[i] \notin Digit \cup {" "})
TsField(s, n) ==
    SubSeq(s, IF n = 1 THEN 1 ELSE TsSeparators(s)[n - 1] + 1, TsSeparators(s)[n] - 1)
TsNumber(f) ==
    IF Len(f) = 1 THEN DigitVal(f[1])
    ELSE 10 * (IF f[1] = " " THEN 0 ELSE DigitVal(f[1])) + DigitVal(f[2])
TsYear(s) ==
    1000 * DigitVal(s[1]) + 100 * DigitVal(s[2]) + 10 * DigitVal(s[3]) + DigitVal(s[4])
TsDigits(f, lo, hi) ==
    /\ Len(f) \in {1, 2}
    /\ \A i \in DOMAIN f : f[i] \in Digit
    /\ TsNumber(f) \in lo..hi
TsBlankPadded(f) == Len(f) = 2 /\ f[1] = " " /\ f[2] \in Digit \ {"0"}
MonthLength(y, m) ==
    IF m = 2 THEN (IF (y % 4 = 0 /\ y % 100 # 0) \/ y % 400 = 0 THEN 29 ELSE 28)
    ELSE IF m \in {4, 6, 9, 11} THEN 30 ELSE 31
TsAccepted(s) ==
    /\ Len(TsSeparators(s)) = 6
    /\ TsSeparators(s)[6] = Len(s)
    /\ s[TsSeparators(s)[1]] = "-" /\ s[TsSeparators(s)[2]] = "-"
    /\ s[TsSeparators(s)[3]] \in {"T", "t"}
    /\ s[TsSeparators(s)[4]] = ":" /\ s[TsSeparators(s)[5]] = ":"
    /\ s[TsSeparators(s)[6]] \in {"Z", "z"}
    /\ Len(TsField(s, 1)) = 4
    /\ \A i \in 1..4 : s[i] \in Digit
    /\ TsYear(s) >= 1
    /\ TsDigits(TsField(s, 2), 1, 12)
    /\ TsDigits(TsField(s, 3), 1, 31) \/ TsBlankPadded(TsField(s, 3))
    /\ TsNumber(TsField(s, 3)) <= MonthLength(TsYear(s), TsNumber(TsField(s, 2)))
    /\ TsDigits(TsField(s, 4), 0, 23)
    /\ TsDigits(TsField(s, 5), 0, 59)
    /\ TsDigits(TsField(s, 6), 0, 59)

\* the accepted strings written as the format writes them: every number in
\* two digits, "T" and "Z" in capitals
TsStrict(s) ==
    /\ TsAccepted(s)
    /\ Len(s) = 20
    /\ \A i \in 1..20 : s[i] # " "
    /\ s[11] = "T" /\ s[20] = "Z"

TsPad(f) ==
    IF Len(f) = 1 THEN <<"0">> \o f
    ELSE IF f[1] = " " THEN <<"0", f[2]>> ELSE f
\* YYYY-MM-DDTHH:MM:SS of an accepted string
TsIso(s) ==
    TsField(s, 1) \o <<"-">> \o TsPad(TsField(s, 2)) \o <<"-">> \o TsPad(TsField(s, 3))
    \o <<"T">> \o TsPad(TsField(s, 4)) \o <<":">> \o TsPad(TsField(s, 5))
    \o <<":">> \o TsPad(TsField(s, 6))
\* what a timestamp is shown as
TsShown(s) == IF TsYear(s) <= 1999 THEN <<"N", "e", "v", "e", "r">> ELSE TsIso(s)

Str(s) == [t |-> "str", v |-> s]

\* C6: the merge of A and B has one entry per key of A, in A's order, each
\* the union of the fields of A[k] and B[k] with B's value wherever both
\* hold the field; it raises KeyError when a key of A is no key of B
C6_Merge ==
    Applied("merge") =>
        LET A == call.args[1]
            B == call.args[2]
        IN  IF Range(A.keys) \subseteq DOMAIN B.map
            THEN /\ ret.exc = "none"
                 /\ Len(ret.val.v) = Cardinality(DOMAIN A.map)
                 /\ \A i \in DOMAIN A.keys :
                        LET a == A.map[A.keys[i]].v
                            b == B.map[A.keys[i]].v
                            m == ret.val.v[i].v
                        IN  /\ DOMAIN m = DOMAIN a \cup DOMAIN b
                            /\ \A f \in DOMAIN b : m[f] = b[f]
                            /\ \A f \in DOMAIN a \ DOMAIN b : m[f] = a[f]
            ELSE ret = [exc |-> "KeyError", val |-> PyNone]

\* two keys merged, A holding them in another order than B, and a field
\* both A and B hold taken from B
C6_Witness ==
    /\ Applied("merge")
    /\ ret.exc = "none"
    /\ Len(call.args[1].keys) = 2
    /\ call.args[1].keys # call.args[2].keys
    /\ \E i \in 1..2 :
           LET k == call.args[1].keys[i]
           IN  /\ "q" \in DOMAIN call.args[1].map[k].v
               /\ "q" \in DOMAIN call.args[2].map[k].v
               /\ ret.val.v[i].v["q"] = call.args[2].map[k].v["q"]
               /\ ret.val.v[i].v["q"] # call.args[1].map[k].v["q"]


\* the 13 columns of a report row
ReportColumns ==
    <<"userId", "isEnabled", "userDisplayName", "userPrincipalName",
      "isExternal", "externalDomain", "externalUserState",
      "externalUserStateLastChangeUTC", "tenantDomain", "methodsRegistered",
      "onPremisesSyncEnabled", "lastInteractiveSignInUTC",
      "lastNonInteractiveSignInUTC">>

\* the record carries the source fields a row is built from
CarriesSourceFields(x) ==
    /\ x.t = "dict"
    /\ {"id", "accountEnabled", "userDisplayName", "userPrincipalName",
        "externalUserState", "externalUserStateChangeDateTime",
        "methodsRegistered", "onPremisesSyncEnabled", "signInActivity"}
           \subseteq DOMAIN x.v

\* a sign-in timestamp the row builder can show: null, empty or accepted
Showable(ts) == ts.t = "none" \/ (ts.t = "str" /\ (ts.v = <<>> \/ TsAccepted(ts.v)))

\* signInActivity is an object with both timestamps, each showable
SignInShowable(x) ==
    /\ x.v["signInActivity"].t = "dict"
    /\ {"lastSignInDateTime", "lastNonInteractiveSignInDateTime"}
           \subseteq DOMAIN x.v["signInActivity"].v
    /\ Showable(x.v["signInActivity"].v["lastSignInDateTime"])
    /\ Showable(x.v["signInActivity"].v["lastNonInteractiveSignInDateTime"])

\* one row per record, in the order of the records, each of the 13 columns
\* in their order
RowsOf(data, rows) ==
    /\ rows.t = "list"
    /\ Len(rows.v) = Len(data)
    /\ \A i \in DOMAIN data :
           /\ rows.v[i].keys = ReportColumns
           /\ DOMAIN rows.v[i].map = Range(ReportColumns)
           /\ rows.v[i].map["userId"] = data[i].v["id"]
           /\ rows.v[i].map["userDisplayName"] = data[i].v["userDisplayName"]

Displayed(item, shown) ==
    /\ item.t = "none" => shown = Str(<<"N", "/", "A">>)
    /\ item.t = "bool" => shown = Str(IF item.v THEN <<"Y", "e", "s">> ELSE <<"N", "o">>)
    /\ item.t = "list" => shown = item
    /\ item.t = "str" /\ item.v # <<>> /\ TsAccepted(item.v) => shown = Str(TsShown(item.v))

C9_AsStated ==
    Applied("is_datetime") =>
        LET item == call.args[1]
        IN  IF item.t = "none" \/ item.v = <<>>
            THEN ret = [exc |-> "none", val |-> Str(<<"N", "/", "A">>)]
            ELSE IF TsStrict(item.v)
            THEN ret = [exc |-> "none",
                        val |-> Str(IF TsYear(item.v) <= 1999
                                    THEN <<"N", "e", "v", "e", "r">>
                                    ELSE SubSeq(item.v, 1, 19))]
            ELSE ret.exc # "none"

\* the positions of the marker, and of the underscores before the last marker
MarkerAt(s) == {j \in 1..Len(s) : StartsAt(s, j, <<"#", "E", "X", "T", "#">>)}
UnderscoresBefore(s, j) == {i \in 1..(j - 1) : s[i] = "_"}

\* C10 as the specification states it: the text between the last
\* underscore before the marker and the marker, "N/A" where no underscore
\* comes before a marker
C10_AsStated ==
    Applied("is_external_domain") =>
        LET s == call.args[1].v
        IN  IF MarkerAt(s) # {} /\ UnderscoresBefore(s, SetMax(MarkerAt(s))) # {}
            THEN ret = [exc |-> "none",
                        val |-> Str(SubSeq(s,
                                  SetMax(UnderscoresBefore(s, SetMax(MarkerAt(s)))) + 1,
                                  SetMax(MarkerAt(s)) - 1))]
            ELSE ret = [exc |-> "none", val |-> Str(<<"N", "/", "A">>)]

=============================================================================
